---- MODULE Spec2Model ----
(***************************************************************************)
(* HeatmapLossLayer (src/caffe/layers/heatmap_loss_layer.cpp): Reshape,    *)
(* Forward_cpu and Backward_cpu acting on the bottom blobs (prediction,    *)
(* ground truth), the top blob (loss) and the layer's own diff_ blob.      *)
(*                                                                         *)
(* Blob data are integer sequences; element idx (0-based in the code) is   *)
(* data[idx + 1].  The normalised loss is kept as the pair sum / den, so   *)
(* that a zero divisor stays visible.  A read past the end of a blob is    *)
(* undefined behaviour: it returns any value of Garbage or ends the        *)
(* process ("segv").  A failed CHECK ends the process too.  Visualisation  *)
(* is left switched off (the default of heatmap_loss_param): it only       *)
(* fills display images and never touches loss, diff_ or the blobs.        *)
(***************************************************************************)
EXTENDS Integers, Sequences, FiniteSets, TLC

VARIABLES
  bottom0,   \* bottom[0], the prediction: [shape, data (cpu_data), diff (cpu_diff)]
  bottom1,   \* bottom[1], the ground truth: [shape, data, diff]
  top,       \* top[0], the loss
  diff_,     \* the layer's difference blob: [alloc, shape, data]
  status,    \* "ok", or how the process ended: "ShapeMismatch" (a failed
             \* CHECK_EQ), "UninitializedBuffer", "segv"
  last,      \* the entry point called last
  shaped,    \* Reshape has succeeded for the shapes the bottoms have now
  topFresh   \* top holds the loss Forward_cpu stored for the current bottoms

vars == <<bottom0, bottom1, top, diff_, status, last, shaped, topFresh>>

(* ------------------------------ bounds -------------------------------- *)
MaxNum == 2
MaxCh == 2
MaxH == 2
MaxW == 3
MaxCount == 6
MaxGarbage == 1
SeqMaxCount == 2

(* ------------------------------ shapes -------------------------------- *)
Shape(n, c, h, w) == [num |-> n, channels |-> c, height |-> h, width |-> w]

Count(s) == s.num * s.channels * s.height * s.width

NoShape == Shape(0, 0, 0, 0)

\* The element count of s with every empty dimension taken as 1.
Volume(s) ==
  LET AtLeast1(k) == IF k = 0 THEN 1 ELSE k
  IN  AtLeast1(s.num) * AtLeast1(s.channels) * AtLeast1(s.height) * AtLeast1(s.width)

Shapes ==
  {s \in [num : 0..MaxNum, channels : 0..MaxCh, height : 0..MaxH, width : 0..MaxW] :
     Volume(s) <= MaxCount}

Dims == {"num", "channels", "height", "width"}

\* The ground truth arrives with the prediction's shape or with one
\* dimension off.
TargetShapes(s) ==
  {t \in Shapes : Cardinality({d \in Dims : t[d] # s[d]}) <= 1}

(* ------------------------------ tensors ------------------------------- *)
Zeros(n) == [i \in 1..n |-> 0]

Ones(n) == [i \in 1..n |-> 1]

Ramp(n) == [i \in 1..n |-> i]

Peak(n, k) == [i \in 1..n |-> IF i = k THEN 1 ELSE 0]

Tensors(n) == {Zeros(n), Ones(n), Ramp(n)} \cup {Peak(n, k) : k \in 1..n}

Garbage == 0..MaxGarbage

\* What a call finds behind a blob's storage when an index runs past the
\* end of the blob.
Pads(needed) == IF needed THEN Garbage ELSE {0}

Blob(s, d) == [shape |-> s, data |-> d, diff |-> Zeros(Count(s))]

Inputs ==
  UNION {UNION {{<<Blob(a, d0), Blob(b, d1)>> :
                   d0 \in Tensors(Count(a)), d1 \in Tensors(Count(b))}
                : b \in TargetShapes(a)} : a \in Shapes}

\* The smaller input set used where the caller feeds new batches between calls.
SeqShapes ==
  {s \in Shapes :
     /\ Count(s) \in 1..SeqMaxCount
     /\ s.num = 1}

SeqTensors(n) == {Zeros(n), Ramp(n)}

SeqInputs ==
  UNION {UNION {{<<Blob(a, d0), Blob(b, d1)>> :
                   d0 \in SeqTensors(Count(a)), d1 \in SeqTensors(Count(b))}
                : b \in TargetShapes(a) \cap SeqShapes} : a \in SeqShapes}

(* ----------------------------- the layer ------------------------------ *)
\* top[0]: the loss as the quotient sum / den; written is FALSE until a
\* forward pass has stored a value.
NoLoss == [written |-> FALSE, sum |-> 0, den |-> 1]

\* diff_ before its first Reshape.
NoDiff == [alloc |-> FALSE, shape |-> NoShape, data |-> <<>>]

InitWith(S) ==
  /\ \E in \in S : bottom0 = in[1] /\ bottom1 = in[2]
  /\ top = NoLoss
  /\ diff_ = NoDiff
  /\ status = "ok"
  /\ last = "init"
  /\ shaped = FALSE
  /\ topFresh = FALSE

Init == InitWith(Inputs)

InitSeq == InitWith(SeqInputs)

\* The caller hands over a new batch: the bottom blobs take new shapes and
\* data; a blob that keeps its shape keeps its gradient storage.
Refill(b, in) ==
  [shape |-> in.shape, data |-> in.data,
   diff |-> IF in.shape = b.shape THEN b.diff ELSE in.diff]

Feed ==
  /\ status = "ok"
  /\ \E in \in SeqInputs :
       /\ <<in[1].shape, in[1].data, in[2].shape, in[2].data>>
            # <<bottom0.shape, bottom0.data, bottom1.shape, bottom1.data>>
       /\ bottom0' = Refill(bottom0, in[1])
       /\ bottom1' = Refill(bottom1, in[2])
       /\ shaped' = (shaped /\ in[1].shape = bottom0.shape /\ in[2].shape = bottom1.shape)
  /\ topFresh' = FALSE
  /\ last' = "feed"
  /\ UNCHANGED <<top, diff_, status>>

(* ------------------------------ Reshape ------------------------------- *)
\* LossLayer<Dtype>::Reshape: gives the top blob its scalar shape.
LossLayerReshape(b0, b1) == TRUE

\* ShapeCheck with the CHECK_EQ on the width left out.
ShapeCheckNoWidth(s0, s1) ==
  /\ s0.channels = s1.channels
  /\ s0.height = s1.height

ShapeCheck(s0, s1) ==
  /\ s0.channels = s1.channels
  /\ s0.height = s1.height
  /\ s0.width = s1.width

DiffReshape(d, s) ==
  [alloc |-> TRUE, shape |-> s,
   data |-> IF Len(d.data) = Count(s) THEN d.data ELSE Zeros(Count(s))]

Reshape ==
  /\ status = "ok"
  /\ last' = "reshape"
  /\ IF LossLayerReshape(bottom0, bottom1) /\ ShapeCheck(bottom0.shape, bottom1.shape)
       THEN /\ diff_' = DiffReshape(diff_, bottom0.shape)
            /\ shaped' = TRUE
            /\ UNCHANGED status
       ELSE /\ status' = "ShapeMismatch"
            /\ UNCHANGED <<diff_, shaped>>
  /\ UNCHANGED <<bottom0, bottom1, top, topFresh>>

(* ----------------------------- Forward_cpu ---------------------------- *)
\* Element idx of a blob; past the end the read returns whatever lies there.
ReadAt(data, idx, pad) ==
  IF idx < Len(data) THEN data[idx + 1] ELSE pad

ImageIdx(img, ch, i, j, imgSize, chSize, H) ==
  img * imgSize + ch * chSize + i * H + j

\* The (idx_img, idx_ch, i, j) the four loops run through: the image count
\* and the label height and width come from bottom[1], the channel count
\* from bottom[0].
ForwardVisits(b0, b1) ==
  (0..(b1.shape.num - 1)) \X (0..(b0.shape.channels - 1))
    \X (0..(b1.shape.height - 1)) \X (0..(b1.shape.width - 1))

ForwardIdx(b0, b1, v) ==
  LET label_channel_size == b1.shape.height * b1.shape.width
      label_img_size == label_channel_size * b0.shape.channels
  IN  ImageIdx(v[1], v[2], v[3], v[4], label_img_size, label_channel_size,
               b1.shape.height)

ForwardIndices(b0, b1) == {ForwardIdx(b0, b1, v) : v \in ForwardVisits(b0, b1)}

OutOfBounds(idxs, data) == {idx \in idxs : idx >= Len(data)}

RECURSIVE SumSq(_, _, _, _, _)
SumSq(V, b0, b1, g0, g1) ==
  IF V = {} THEN 0
  ELSE LET v == CHOOSE x \in V : TRUE
           idx == ForwardIdx(b0, b1, v)
           diff == ReadAt(b0.data, idx, g0) - ReadAt(b1.data, idx, g1)
       IN  diff * diff + SumSq(V \ {v}, b0, b1, g0, g1)

Divisor(b0, b1) ==
  b1.shape.num * b0.shape.channels * (b1.shape.height * b1.shape.width)

Normalise(loss, n) == [written |-> TRUE, sum |-> loss, den |-> n]

\* Runs on bottoms Reshape has accepted: the framework reshapes the layer
\* whenever the bottoms change shape and before every forward pass.
Forward_cpu ==
  /\ status = "ok"
  /\ shaped
  /\ last' = "forward"
  /\ LET idxs == ForwardIndices(bottom0, bottom1)
         O0 == OutOfBounds(idxs, bottom0.data)
         O1 == OutOfBounds(idxs, bottom1.data)
     IN  \/ \E g0 \in Pads(O0 # {}), g1 \in Pads(O1 # {}) :
              /\ top' = Normalise(SumSq(ForwardVisits(bottom0, bottom1),
                                        bottom0, bottom1, g0, g1),
                                  Divisor(bottom0, bottom1))
              /\ topFresh' = TRUE
              /\ UNCHANGED status
         \/ /\ O0 \cup O1 # {}
            /\ status' = "segv"
            /\ UNCHANGED <<top, topFresh>>
  /\ UNCHANGED <<bottom0, bottom1, diff_, shaped>>

(* ---------------------------- Backward_cpu ---------------------------- *)
\* Blob::mutable_cpu_data() of a blob that was never given a shape.
BlobHasData(d) == d.alloc

\* diff_.mutable_cpu_data() as Backward_cpu calls it, before caffe_sub runs:
\* the call fails on a blob without storage.
UncheckedCpuData(d) == TRUE

MutableCpuData(d) == BlobHasData(d)

\* SubIntoDiff adding to y instead of overwriting it.
SubAccumulate(count, a, b, y, g) ==
  [i \in 1..Len(y) |->
     IF i <= count THEN y[i] + ReadAt(a, i - 1, g) - ReadAt(b, i - 1, g) ELSE y[i]]

\* caffe_sub(count, a, b, y): y[i] = a[i] - b[i] for the first count elements.
SubIntoDiff(count, a, b, y, g) ==
  [i \in 1..Len(y) |->
     IF i <= count THEN ReadAt(a, i - 1, g) - ReadAt(b, i - 1, g) ELSE y[i]]

\* memcpy of count elements of diff_ into a gradient buffer.
CopyGrad(dst, src, count) ==
  [i \in 1..Len(dst) |-> IF i <= count /\ i <= Len(src) THEN src[i] ELSE dst[i]]

GradPrediction(dst, src, count) == CopyGrad(dst, src, count)

\* GradTarget with the sign of the ground truth's gradient flipped.
GradTargetNegated(dst, src, count) ==
  [i \in 1..Len(dst) |-> IF i <= count /\ i <= Len(src) THEN 0 - src[i] ELSE dst[i]]

GradTarget(dst, src, count) == CopyGrad(dst, src, count)

\* propagate_down is never read.  Runs on bottoms Reshape has accepted, or
\* on a layer that was never reshaped.
Backward_cpu ==
  /\ status = "ok"
  /\ shaped \/ ~diff_.alloc
  /\ last' = "backward"
  /\ IF ~MutableCpuData(diff_)
    THEN /\ status' = "UninitializedBuffer"
         /\ UNCHANGED <<bottom0, bottom1, diff_>>
    ELSE LET count == Count(bottom0.shape)
             past == {idx \in 0..(count - 1) : idx >= Len(bottom1.data)}
         IN  \/ \E g \in Pads(past # {}) :
                  LET d == SubIntoDiff(count, bottom0.data, bottom1.data,
                                       diff_.data, g)
                  IN  /\ diff_' = [diff_ EXCEPT !.data = d]
                      /\ bottom0' = [bottom0 EXCEPT
                                       !.diff = GradPrediction(@, d, count)]
                      /\ bottom1' = [bottom1 EXCEPT
                                       !.diff = GradTarget(@, d, count)]
                      /\ UNCHANGED status
             \/ /\ past # {}
                /\ status' = "segv"
                /\ UNCHANGED <<bottom0, bottom1, diff_>>
  /\ UNCHANGED <<top, shaped, topFresh>>

(* --------------------------- specifications --------------------------- *)
Next == Reshape \/ Forward_cpu \/ Backward_cpu

Spec == Init /\ [][Next]_vars

NextSeq == Feed \/ Reshape \/ Forward_cpu \/ Backward_cpu

SpecSeq == InitSeq /\ [][NextSeq]_vars

TypeOK ==
  /\ status \in {"ok", "ShapeMismatch", "UninitializedBuffer", "segv"}
  /\ last \in {"init", "feed", "reshape", "forward", "backward"}
  /\ Len(bottom0.data) = Count(bottom0.shape)
  /\ Len(bottom0.diff) = Count(bottom0.shape)
  /\ Len(bottom1.data) = Count(bottom1.shape)
  /\ Len(bottom1.diff) = Count(bottom1.shape)
  /\ Len(diff_.data) = Count(diff_.shape)
  /\ shaped => diff_.alloc /\ diff_.shape = bottom0.shape

(* ------------------------------ claims -------------------------------- *)
NonEmpty(s) == s.num >= 1 /\ s.channels >= 1 /\ s.height >= 1 /\ s.width >= 1

SameShape == bottom0.shape = bottom1.shape

RECURSIVE SumSqDiff(_, _, _)
SumSqDiff(p, t, n) ==
  IF n = 0 THEN 0
  ELSE (p[n] - t[n]) * (p[n] - t[n]) + SumSqDiff(p, t, n - 1)

AllZero(d) == \A i \in 1..Len(d) : d[i] = 0

\* C1: for same-shaped, non-empty prediction and target a completed forward
\* pass stores the sum of (p[e] - t[e])^2 over every element e exactly once,
\* divided by num_images * num_channels * height * width.
C1_MeanSquaredError ==
  (last = "forward" /\ SameShape /\ NonEmpty(bottom0.shape)) =>
    /\ status = "ok"
    /\ top.written
    /\ top.den = Count(bottom0.shape)
    /\ top.sum = SumSqDiff(bottom0.data, bottom1.data, Count(bottom0.shape))

\* C2: for same-shaped prediction and target a completed backward pass
\* leaves grad_prediction[idx] = grad_target[idx] = p[idx] - t[idx] at every
\* flat index of the tensor: no factor 2, no division, no negation.
C2_Gradient ==
  (last = "backward" /\ status = "ok" /\ SameShape) =>
    /\ Len(bottom0.diff) = Count(bottom0.shape)
    /\ Len(bottom1.diff) = Count(bottom0.shape)
    /\ \A i \in 1..Count(bottom0.shape) :
         /\ bottom0.diff[i] = bottom0.data[i] - bottom1.data[i]
         /\ bottom1.diff[i] = bottom0.data[i] - bottom1.data[i]

\* The 2x2 scenario: prediction [[1,2],[3,4]], ground truth all ones,
\* gradient [[0,1],[2,3]] for both.
C2_Witness ==
  /\ last = "backward"
  /\ status = "ok"
  /\ bottom0.shape = Shape(1, 1, 2, 2)
  /\ bottom1.shape = Shape(1, 1, 2, 2)
  /\ bottom0.data = <<1, 2, 3, 4>>
  /\ bottom1.data = <<1, 1, 1, 1>>
  /\ bottom0.diff = <<0, 1, 2, 3>>
  /\ bottom1.diff = <<0, 1, 2, 3>>

\* C3: a Reshape call on bottoms that differ in channels, height or width
\* ends in ShapeMismatch and leaves the loss, the gradients and diff_ as
\* they were.
C3_ShapeMismatch ==
  [][(/\ last' = "reshape"
      /\ \/ bottom0.shape.channels # bottom1.shape.channels
         \/ bottom0.shape.height # bottom1.shape.height
         \/ bottom0.shape.width # bottom1.shape.width)
     => /\ status' = "ShapeMismatch"
        /\ top' = top
        /\ diff_' = diff_
        /\ bottom0' = bottom0
        /\ bottom1' = bottom1]_vars

\* A Reshape has failed on a layer whose diff_ and loss held values of
\* earlier calls.
C3_Witness ==
  /\ status = "ShapeMismatch"
  /\ last = "reshape"
  /\ bottom0.shape.width # bottom1.shape.width
  /\ diff_.alloc
  /\ ~AllZero(diff_.data)
  /\ top.written

\* C4: when prediction and target are equal elementwise, a forward pass
\* stores loss 0 and a backward pass leaves both gradients all zero.
C4_ZeroOnEqual ==
  (SameShape /\ bottom0.data = bottom1.data) =>
    /\ last = "forward" =>
         status = "ok" /\ top.written /\ top.sum = 0 /\ top.den # 0
    /\ (last = "backward" /\ status = "ok") =>
         AllZero(bottom0.diff) /\ AllZero(bottom1.diff)

\* C5: a forward pass over tensors with an empty dimension ends in an
\* EmptyInput error and never divides by the zero element count.
C5_EmptyInput ==
  (last = "forward" /\ Divisor(bottom0, bottom1) = 0) =>
    status = "EmptyInput" /\ ~(top.written /\ top.den = 0)

C7_ForwardIdempotent ==
  [][(last' = "forward")
     => /\ bottom0' = bottom0
        /\ bottom1' = bottom1
        /\ diff_' = diff_
        /\ topFresh => (status' = "ok" /\ top' = top)]_vars

C9_IndexInBounds ==
  (last = "forward" /\ SameShape /\ NonEmpty(bottom0.shape)) =>
    /\ ForwardIndices(bottom0, bottom1) \subseteq 0..(Count(bottom0.shape) - 1)
    /\ status # "segv"

\* C10: once Reshape has succeeded the bottoms hold the same number of
\* elements, so no pass runs past the end of either of them.
C10_SameCount ==
  shaped =>
    /\ Count(bottom0.shape) = Count(bottom1.shape)
    /\ status # "segv"

====
